---- MODULE Spec2Model ----
(***************************************************************************)
(* A model of HdPrefixingSceneIndex (pxr/imaging/hd/prefixingSceneIndex.cpp)*)
(* and of the two data source proxies it hands out.                        *)
(*                                                                         *)
(* A path is a record [kind, elems]: kind is "abs" (anchored at the root), *)
(* "rel" (relative) or "empty" (SdfPath()), elems the sequence of name     *)
(* tokens.  "/A/B" is [kind |-> "abs", elems |-> <<"A", "B">>].            *)
(***************************************************************************)
EXTENDS Naturals, Sequences, FiniteSets, TLC

\* ------------------------------------------------------------------ bounds
MaxPrefixLen == 2
MaxQueryLen == 4
MaxCalls == 2
MaxEntries == 3
MaxWraps == 2

\* ------------------------------------------------------------ path algebra
NameOrder == <<"A", "B">>

Names == {NameOrder[i] : i \in DOMAIN NameOrder}

SeqsUpTo(S, n) == UNION {[1..k -> S] : k \in 0..n}

AbsPath(s) == [kind |-> "abs", elems |-> s]

RelPath(s) == [kind |-> "rel", elems |-> s]

EmptyPath == [kind |-> "empty", elems |-> <<>>]

AbsoluteRootPath == AbsPath(<<>>)

ReflexiveRelativePath == RelPath(<<>>)

IsEmpty(p) == p.kind = "empty"

IsAbsolutePath(p) == p.kind = "abs"

GetPathElementCount(p) == Len(p.elems)

\* p.HasPrefix(pre): pre's tokens are a leading run of p's tokens, compared
\* token by token; an empty path has no prefix and is no prefix.
HasPrefix(p, pre) ==
    /\ ~IsEmpty(p)
    /\ ~IsEmpty(pre)
    /\ p.kind = pre.kind
    /\ Len(pre.elems) <= Len(p.elems)
    /\ SubSeq(p.elems, 1, Len(pre.elems)) = pre.elems

\* p.ReplacePrefix(old, new)
ReplacePrefix(p, old, new) ==
    IF IsEmpty(p) \/ old = new THEN p
    ELSE IF IsEmpty(old) \/ IsEmpty(new) THEN EmptyPath
    ELSE IF ~HasPrefix(p, old) THEN p
    ELSE [kind |-> new.kind,
          elems |-> new.elems \o SubSeq(p.elems, Len(old.elems) + 1, Len(p.elems))]

\* p.MakeRelativePath(anchor), for an absolute anchor that is a prefix of p
\* (the only anchor the scene index passes is the absolute root).
MakeRelativePath(p, anchor) ==
    IF IsEmpty(anchor) \/ ~IsAbsolutePath(anchor) THEN EmptyPath
    ELSE IF IsEmpty(p) THEN EmptyPath
    ELSE IF ~IsAbsolutePath(p) THEN p
    ELSE IF HasPrefix(p, anchor)
         THEN RelPath(SubSeq(p.elems, Len(anchor.elems) + 1, Len(p.elems)))
         ELSE EmptyPath

\* p.AppendPath(suffix)
AppendPath(p, suffix) ==
    IF IsEmpty(p) \/ IsEmpty(suffix) THEN EmptyPath
    ELSE IF IsAbsolutePath(suffix) THEN EmptyPath
    ELSE IF suffix = ReflexiveRelativePath THEN p
    ELSE [kind |-> p.kind, elems |-> p.elems \o suffix.elems]

\* p.GetPrefixes(): the prefixes of p from shortest to longest, p itself
\* last; the absolute root is not among them, so "/A/B" gives </A, /A/B>.
GetPrefixes(p) ==
    [i \in 1..Len(p.elems) |-> [kind |-> p.kind, elems |-> SubSeq(p.elems, 1, i)]]

\* -------------------------------------------------------------- the inputs
AbsPathsUpTo(n) == {AbsPath(s) : s \in SeqsUpTo(Names, n)}

Prefixes == AbsPathsUpTo(MaxPrefixLen)

QueryPaths ==
    AbsPathsUpTo(MaxQueryLen)
        \cup {EmptyPath, ReflexiveRelativePath, RelPath(<<"A">>), RelPath(<<"A", "B">>)}

\* ------------------------------------------------------------ data sources
\* A data source handle is a record with a kind: "null" (the null handle),
\* "path" (an upstream HdTypedSampledDataSource<SdfPath>), "opaque" (any
\* other upstream sampled data source), "container" (an upstream
\* HdContainerDataSource), "pathContainer" (an upstream object of a class
\* that derives from both interfaces), and the two proxies of this file,
\* "prefixPath" and "prefixContainer", which hold _prefix and
\* _inputDataSource.
Times == {0, 1}

Null == [kind |-> "null"]

PathLeaf(v) == [kind |-> "path", value |-> v]

Opaque(x) == [kind |-> "opaque", value |-> x]

Container(names, child) == [kind |-> "container", names |-> names, child |-> child]

\* Hd_PrefixingSceneIndexPathDataSource::New(prefix, inputDataSource)
PathDataSourceNew(pfx, input) == [kind |-> "prefixPath", prefix |-> pfx, input |-> input]

\* Hd_PrefixingSceneIndexContainerDataSource::New(prefix, inputDataSource)
ContainerDataSourceNew(pfx, input) ==
    [kind |-> "prefixContainer", prefix |-> pfx, input |-> input]

\* HdContainerDataSource::Cast and HdTypedSampledDataSource<SdfPath>::Cast
\* succeed on the upstream objects of that interface and on the proxies
\* that implement it.
CastsToContainer(ds) == ds.kind \in {"container", "pathContainer", "prefixContainer"}

CastsToPath(ds) == ds.kind \in {"path", "pathContainer", "prefixPath"}

Constant(v) == [t \in Times |-> v]

TargetAB == PathLeaf(Constant(AbsPath(<<"A", "B">>)))

TargetB == PathLeaf(Constant(AbsPath(<<"B">>)))

TargetRoot == PathLeaf(Constant(AbsoluteRootPath))

TargetRel == PathLeaf(Constant(RelPath(<<"A", "B">>)))

TargetNone == PathLeaf(Constant(EmptyPath))

TargetMoving ==
    PathLeaf([t \in Times |-> IF t = 0 THEN AbsPath(<<"A">>) ELSE RelPath(<<"B">>)])

RawLeaves == {TargetAB, TargetB, TargetRoot, TargetRel, TargetNone, TargetMoving}

InnerContainer ==
    Container(<<"val", "tgt">>, [n \in {"val", "tgt"} |->
        IF n = "val" THEN Opaque("v2") ELSE TargetB])

OuterContainer ==
    Container(<<"sub", "rel", "abs", "val">>, [n \in {"sub", "rel", "abs", "val"} |->
        CASE n = "sub" -> InnerContainer
          [] n = "rel" -> TargetRel
          [] n = "abs" -> TargetAB
          [] n = "val" -> Opaque("v1")])

EmptyContainer == Container(<<>>, [n \in {} |-> Null])

\* An upstream object that is a container and a path data source at once.
PathAndContainer ==
    [kind |-> "pathContainer",
     names |-> <<"tgt">>,
     child |-> [n \in {"tgt"} |-> TargetB],
     value |-> Constant(AbsPath(<<"A">>))]

MixedContainer ==
    Container(<<"both", "val">>, [n \in {"both", "val"} |->
        IF n = "both" THEN PathAndContainer ELSE Opaque("v3")])

RawContainers == {EmptyContainer, InnerContainer, OuterContainer, MixedContainer}

\* ------------------------------------------- the data source proxies' code
\* GetTypedValue, Has, GetNames and Get are the virtual calls: on an upstream
\* object they give what it holds, on a proxy they run the proxy's method.
RECURSIVE GetTypedValue(_, _)

\* GetTypedValue replacing the prefix by the root instead of the root by the
\* prefix.
PathDataSourceGetTypedValueStripping(self, shutterOffset) ==
    IF self.input = Null
    THEN EmptyPath
    ELSE LET result == GetTypedValue(self.input, shutterOffset)
         IN IF IsAbsolutePath(result)
            THEN ReplacePrefix(result, self.prefix, AbsoluteRootPath)
            ELSE result

\* Hd_PrefixingSceneIndexPathDataSource::GetTypedValue
PathDataSourceGetTypedValue(self, shutterOffset) ==
    IF self.input = Null
    THEN EmptyPath
    ELSE LET result == GetTypedValue(self.input, shutterOffset)
         IN IF IsAbsolutePath(result)
            THEN ReplacePrefix(result, AbsoluteRootPath, self.prefix)
            ELSE result

GetTypedValue(ds, shutterOffset) ==
    IF ds.kind \in {"path", "pathContainer"}
    THEN ds.value[shutterOffset]
    ELSE PathDataSourceGetTypedValue(ds, shutterOffset)

RECURSIVE Has(_, _)

\* Hd_PrefixingSceneIndexContainerDataSource::Has
ContainerDataSourceHas(self, name) ==
    IF self.input # Null THEN Has(self.input, name) ELSE FALSE

Has(ds, name) ==
    IF ds.kind \in {"container", "pathContainer"}
    THEN name \in DOMAIN ds.child
    ELSE ContainerDataSourceHas(ds, name)

RECURSIVE GetNames(_)

\* Hd_PrefixingSceneIndexContainerDataSource::GetNames
ContainerDataSourceGetNames(self) ==
    IF self.input # Null THEN GetNames(self.input) ELSE <<>>

GetNames(ds) ==
    IF ds.kind \in {"container", "pathContainer"}
    THEN ds.names
    ELSE ContainerDataSourceGetNames(ds)

RECURSIVE Get(_, _)

\* Get handing a child container on as it is, without a proxy around it.
ContainerDataSourceGetBareContainer(self, name) ==
    IF self.input = Null
    THEN Null
    ELSE LET childSource == Get(self.input, name)
         IN IF childSource # Null
            THEN IF CastsToContainer(childSource)
                 THEN childSource
                 ELSE IF CastsToPath(childSource)
                 THEN PathDataSourceNew(self.prefix, childSource)
                 ELSE childSource
            ELSE Null

\* Get trying the path cast before the container cast.
ContainerDataSourceGetPathFirst(self, name) ==
    IF self.input = Null
    THEN Null
    ELSE LET childSource == Get(self.input, name)
         IN IF childSource # Null
            THEN IF CastsToPath(childSource)
                 THEN PathDataSourceNew(self.prefix, childSource)
                 ELSE IF CastsToContainer(childSource)
                 THEN ContainerDataSourceNew(self.prefix, childSource)
                 ELSE childSource
            ELSE Null

\* Hd_PrefixingSceneIndexContainerDataSource::Get
ContainerDataSourceGet(self, name) ==
    IF self.input = Null
    THEN Null
    ELSE LET childSource == Get(self.input, name)
         IN IF childSource # Null
            THEN IF CastsToContainer(childSource)
                 THEN ContainerDataSourceNew(self.prefix, childSource)
                 ELSE IF CastsToPath(childSource)
                 THEN PathDataSourceNew(self.prefix, childSource)
                 ELSE childSource
            ELSE Null

Get(ds, name) ==
    IF ds.kind \in {"container", "pathContainer"}
    THEN IF name \in DOMAIN ds.child THEN ds.child[name] ELSE Null
    ELSE ContainerDataSourceGet(ds, name)

\* The proxies a call of op ("Has", "GetNames" or "Get", the last with name)
\* on ds constructs, in the order of construction: those the wrapped object
\* constructs when the call is passed on to it, then the one this proxy
\* constructs itself.
RECURSIVE Constructed(_, _, _)

\* GetNames putting a proxy around every child it names.
ContainerDataSourceConstructedEagerly(self, op, name) ==
    IF self.input = Null
    THEN <<>>
    ELSE LET below == Constructed(self.input, op, name)
             names == GetNames(self.input)
         IN IF op = "GetNames"
            THEN below \o [i \in 1..Len(names) |->
                              ContainerDataSourceGet(self, names[i])]
            ELSE IF op = "Get"
            THEN LET childSource == Get(self.input, name)
                 IN IF childSource # Null /\ CastsToContainer(childSource)
                    THEN Append(below, ContainerDataSourceNew(self.prefix, childSource))
                    ELSE IF childSource # Null /\ CastsToPath(childSource)
                    THEN Append(below, PathDataSourceNew(self.prefix, childSource))
                    ELSE below
            ELSE below

\* The New calls of Hd_PrefixingSceneIndexContainerDataSource: none in Has
\* and GetNames, one in Get when the child casts to a container or to a
\* path data source.
ContainerDataSourceConstructed(self, op, name) ==
    IF self.input = Null
    THEN <<>>
    ELSE LET below == Constructed(self.input, op, name)
         IN IF op = "Get"
            THEN LET childSource == Get(self.input, name)
                 IN IF childSource # Null /\ CastsToContainer(childSource)
                    THEN Append(below, ContainerDataSourceNew(self.prefix, childSource))
                    ELSE IF childSource # Null /\ CastsToPath(childSource)
                    THEN Append(below, PathDataSourceNew(self.prefix, childSource))
                    ELSE below
            ELSE below

Constructed(ds, op, name) ==
    IF ds.kind = "prefixContainer"
    THEN ContainerDataSourceConstructed(ds, op, name)
    ELSE <<>>

\* --------------------------------------------------------- upstream scenes
EmptyToken == ""

AbsentPrim == [primType |-> EmptyToken, dataSource |-> Null]

\* The upstream trees, as the sets of their non-root nodes.
Trees ==
    { {},
      {<<"A">>},
      {<<"A">>, <<"B">>},
      {<<"B">>, <<"B", "A">>},
      {<<"A">>, <<"B">>, <<"A", "A">>, <<"A", "B">>, <<"B", "B">>} }

Reverse(s) == [i \in 1..Len(s) |-> s[Len(s) + 1 - i]]

\* The children of node s in tree, in the order of names.
ChildrenOf(tree, s, names) ==
    LET present(n) == Append(s, n) \in tree
        kept == SelectSeq(names, present)
    IN [i \in 1..Len(kept) |-> AbsPath(Append(s, kept[i]))]

\* What the prims of a scene carry: a type and a container, a type alone, or
\* a container alone.
Contents == {"full", "typeOnly", "dataOnly"}

PrimOf(content, s) ==
    [primType |-> IF content = "dataOnly" THEN EmptyToken
                  ELSE IF s = <<>> THEN "root" ELSE "mesh",
     dataSource |-> IF content = "typeOnly" THEN Null
                    ELSE IF s = <<>> THEN EmptyContainer ELSE OuterContainer]

SceneOf(tree, names, content) ==
    LET nodes == tree \cup {<<>>}
    IN [kind |-> "scene",
        children |-> [p \in {AbsPath(s) : s \in nodes} |-> ChildrenOf(tree, p.elems, names)],
        prims |-> [p \in {AbsPath(s) : s \in nodes} |-> PrimOf(content, p.elems)]]

Scenes ==
    {SceneOf(tree, names, content) :
        tree \in Trees, names \in {NameOrder, Reverse(NameOrder)}, content \in Contents}

\* The null handle, as it may be given to HdPrefixingSceneIndex::New.
NullScene == [kind |-> "null"]

\* A scene that holds no prim at all.
EmptyScene == [kind |-> "scene", children |-> <<>>, prims |-> <<>>]

\* ------------------------------------------------------------------- state
VARIABLES
    prefix,      \* HdPrefixingSceneIndex::_prefix
    inputScene,  \* the input scene index; null when construction failed
    last,        \* the last query made of the scene index and its outcome
    visited,     \* the paths a top-down walk has reached
    frontier,    \* the paths of the walk whose children are still to be read
    issued,      \* the batches upstream has notified this scene index of
    sent,        \* the batches this scene index has sent to its observers
    handle,      \* the data source handle a consumer holds
    lastRead     \* the last read made through a data source handle

vars == <<prefix, inputScene, last, visited, frontier, issued, sent, handle, lastRead>>

walkVars == <<visited, frontier>>

notifyVars == <<issued, sent>>

dataVars == <<handle, lastRead>>

\* HdPrefixingSceneIndex::_AddPathPrefix
AddPathPrefix(primPath) == ReplacePrefix(primPath, AbsoluteRootPath, prefix)

\* _RemovePathPrefix cutting as many leading tokens as the prefix has, without
\* comparing them.
RemovePathPrefixByLength(primPath) ==
    IF IsAbsolutePath(primPath) /\ Len(prefix.elems) <= Len(primPath.elems)
    THEN AbsPath(SubSeq(primPath.elems, Len(prefix.elems) + 1, Len(primPath.elems)))
    ELSE primPath

\* HdPrefixingSceneIndex::_RemovePathPrefix
RemovePathPrefix(primPath) == ReplacePrefix(primPath, prefix, AbsoluteRootPath)

\* The outcome of a call: it returned ret after making calls upstream, or it
\* ended the process.
Returned(ret, calls) == [status |-> "ok", ret |-> ret, calls |-> calls]

UpstreamCall(op, p) == [op |-> op, path |-> p]

\* The constructor of the base class and a null handle: it registers an
\* observer with the input scene, and on a null handle that ends the process
\* before the scene index exists.
ConstructionFatal == [status |-> "fatal", ret |-> Null, calls |-> <<>>]

\* HdPrefixingSceneIndex::HdPrefixingSceneIndex: the outcomes of constructing
\* a scene index.  The base class HdSingleInputFilteringSceneIndexBase takes
\* the input scene handle.  Given a null handle it either ends the process or
\* leaves the scene index over a scene with no prims, depending on the base
\* class the file is built with; a scene index that exists never holds a null
\* input scene.
New(inputSceneIndex, pfx) ==
    IF inputSceneIndex # NullScene
    THEN {[out |-> Returned(Null, <<>>), prefix |-> pfx, inputScene |-> inputSceneIndex]}
    ELSE {[out |-> ConstructionFatal, prefix |-> pfx, inputScene |-> NullScene],
          [out |-> Returned(Null, <<>>), prefix |-> pfx, inputScene |-> EmptyScene]}

\* The input scene may itself be an HdPrefixingSceneIndex, the record
\* [kind |-> "prefixing", prefix, input]: its GetPrim and GetChildPrimPaths
\* are then the code of this file run with its own _prefix and input scene.
PrefixingSceneIndexNew(inputScn, pfx) ==
    [kind |-> "prefixing", prefix |-> pfx, input |-> inputScn]

RECURSIVE SceneIndexGetPrim(_, _)
RECURSIVE SceneIndexGetChildPrimPaths(_, _)

\* HdSceneIndexBase::GetPrim of the input scene
InputGetPrim(scene, p) ==
    IF scene.kind = "prefixing"
    THEN SceneIndexGetPrim(scene, p).ret
    ELSE IF p \in DOMAIN scene.prims THEN scene.prims[p] ELSE AbsentPrim

\* HdSceneIndexBase::GetChildPrimPaths of the input scene
InputGetChildPrimPaths(scene, p) ==
    IF scene.kind = "prefixing"
    THEN SceneIndexGetChildPrimPaths(scene, p).ret
    ELSE IF p \in DOMAIN scene.children THEN scene.children[p] ELSE <<>>

\* HdPrefixingSceneIndex::GetPrim of the scene index self
SceneIndexGetPrim(self, primPath) ==
    IF ~HasPrefix(primPath, self.prefix)
    THEN Returned(AbsentPrim, <<>>)
    ELSE LET inner == ReplacePrefix(primPath, self.prefix, AbsoluteRootPath)
             prim == InputGetPrim(self.input, inner)
         IN Returned(
                IF prim.dataSource # Null
                THEN [prim EXCEPT
                         !.dataSource = ContainerDataSourceNew(self.prefix, prim.dataSource)]
                ELSE prim,
                <<UpstreamCall("GetPrim", inner)>>)

\* HdPrefixingSceneIndex::GetChildPrimPaths of the scene index self
SceneIndexGetChildPrimPaths(self, primPath) ==
    IF HasPrefix(primPath, self.prefix)
    THEN LET inner == ReplacePrefix(primPath, self.prefix, AbsoluteRootPath)
                  result == InputGetChildPrimPaths(self.input, inner)
              IN Returned(
                     [i \in 1..Len(result) |->
                         AppendPath(self.prefix,
                                    MakeRelativePath(result[i], AbsoluteRootPath))],
                     <<UpstreamCall("GetChildPrimPaths", inner)>>)
    ELSE IF HasPrefix(self.prefix, primPath)
    THEN LET v == GetPrefixes(self.prefix)
             n == GetPathElementCount(primPath)
         IN Returned(
                <<IF n + 1 \in DOMAIN v THEN v[n + 1]
                  ELSE [kind |-> "undefined", elems |-> <<>>]>>,
                <<>>)
    ELSE Returned(<<>>, <<>>)

\* GetPrim without the test of line 167: every path is passed upstream.
GetPrimUnguarded(primPath) ==
    LET inner == RemovePathPrefix(primPath)
             prim == InputGetPrim(inputScene, inner)
         IN Returned(
                IF prim.dataSource # Null
                THEN [prim EXCEPT !.dataSource = ContainerDataSourceNew(prefix, prim.dataSource)]
                ELSE prim,
                <<UpstreamCall("GetPrim", inner)>>)

\* GetPrim without the test of line 174: a null container is wrapped too.
GetPrimAlwaysWrapping(primPath) ==
    IF ~HasPrefix(primPath, prefix)
    THEN Returned(AbsentPrim, <<>>)
    ELSE LET inner == RemovePathPrefix(primPath)
             prim == InputGetPrim(inputScene, inner)
         IN Returned(
                [prim EXCEPT !.dataSource = ContainerDataSourceNew(prefix, prim.dataSource)],
                <<UpstreamCall("GetPrim", inner)>>)

\* HdPrefixingSceneIndex::GetPrim
GetPrim(primPath) ==
    IF ~HasPrefix(primPath, prefix)
    THEN Returned(AbsentPrim, <<>>)
    ELSE LET inner == RemovePathPrefix(primPath)
             prim == InputGetPrim(inputScene, inner)
         IN Returned(
                IF prim.dataSource # Null
                THEN [prim EXCEPT !.dataSource = ContainerDataSourceNew(prefix, prim.dataSource)]
                ELSE prim,
                <<UpstreamCall("GetPrim", inner)>>)

\* The index taken as if GetPrefixes() began with the absolute root.
PrefixesAtCountingRoot(n) ==
    LET v == GetPrefixes(prefix)
    IN IF n \in DOMAIN v THEN v[n] ELSE [kind |-> "undefined", elems |-> <<>>]

\* The element _prefix.GetPrefixes()[n] of a std::vector, which is indexed
\* from 0; past the end the read is undefined.
PrefixesAt(n) ==
    LET v == GetPrefixes(prefix)
    IN IF n + 1 \in DOMAIN v THEN v[n + 1] ELSE [kind |-> "undefined", elems |-> <<>>]

\* GetChildPrimPaths appending the upstream child as it is, an absolute path.
GetChildPrimPathsAppendingAbsolute(primPath) ==
    IF HasPrefix(primPath, prefix)
    THEN LET inner == RemovePathPrefix(primPath)
                  result == InputGetChildPrimPaths(inputScene, inner)
              IN Returned(
                     [i \in 1..Len(result) |-> AppendPath(prefix, result[i])],
                     <<UpstreamCall("GetChildPrimPaths", inner)>>)
    ELSE IF HasPrefix(prefix, primPath)
    THEN Returned(<<PrefixesAt(GetPathElementCount(primPath))>>, <<>>)
    ELSE Returned(<<>>, <<>>)

\* GetChildPrimPaths without the branch of lines 203-205.
GetChildPrimPathsWithoutJunctions(primPath) ==
    IF HasPrefix(primPath, prefix)
    THEN LET inner == RemovePathPrefix(primPath)
                  result == InputGetChildPrimPaths(inputScene, inner)
              IN Returned(
                     [i \in 1..Len(result) |->
                         AppendPath(prefix, MakeRelativePath(result[i], AbsoluteRootPath))],
                     <<UpstreamCall("GetChildPrimPaths", inner)>>)
    ELSE Returned(<<>>, <<>>)

\* GetChildPrimPaths answering an ancestor of the prefix with the prefix
\* itself.
GetChildPrimPathsJumpingToPrefix(primPath) ==
    IF HasPrefix(primPath, prefix)
    THEN LET inner == RemovePathPrefix(primPath)
                  result == InputGetChildPrimPaths(inputScene, inner)
              IN Returned(
                     [i \in 1..Len(result) |->
                         AppendPath(prefix, MakeRelativePath(result[i], AbsoluteRootPath))],
                     <<UpstreamCall("GetChildPrimPaths", inner)>>)
    ELSE IF HasPrefix(prefix, primPath)
    THEN Returned(<<prefix>>, <<>>)
    ELSE Returned(<<>>, <<>>)

\* HdPrefixingSceneIndex::GetChildPrimPaths
GetChildPrimPaths(primPath) ==
    IF HasPrefix(primPath, prefix)
    THEN LET inner == RemovePathPrefix(primPath)
                  result == InputGetChildPrimPaths(inputScene, inner)
              IN Returned(
                     [i \in 1..Len(result) |->
                         AppendPath(prefix, MakeRelativePath(result[i], AbsoluteRootPath))],
                     <<UpstreamCall("GetChildPrimPaths", inner)>>)
    ELSE IF HasPrefix(prefix, primPath)
    THEN Returned(<<PrefixesAt(GetPathElementCount(primPath))>>, <<>>)
    ELSE Returned(<<>>, <<>>)

\* ------------------------------------------------- the scene index queried
NoQuery == [op |-> "none", path |-> EmptyPath, out |-> Returned(Null, <<>>)]

NoRead == [op |-> "none"]

\* The parts of the state a specification leaves idle.
IdleScene == SceneOf({}, NameOrder, "typeOnly")

IdleWalk == visited = {} /\ frontier = <<>>

IdleNotify == issued = <<>> /\ sent = <<>>

IdleData == handle = Null /\ lastRead = NoRead

\* A construction that ended the process: no scene index exists to query.
NotConstructed == [op |-> "none", path |-> EmptyPath, out |-> ConstructionFatal]

InitQuery ==
    /\ \E pfx \in Prefixes, scene \in Scenes \cup {NullScene} :
           \E made \in New(scene, pfx) :
               /\ prefix = made.prefix
               /\ inputScene = made.inputScene
               /\ last = IF made.out.status = "ok" THEN NoQuery ELSE NotConstructed
    /\ IdleWalk
    /\ IdleNotify
    /\ IdleData

\* The scene index exists: its construction returned.
Running == last.out.status = "ok"

CallGetPrim ==
    /\ Running
    /\ \E q \in QueryPaths :
           last' = [op |-> "GetPrim", path |-> q, out |-> GetPrim(q)]
    /\ UNCHANGED <<prefix, inputScene, walkVars, notifyVars, dataVars>>

CallGetChildPrimPaths ==
    /\ Running
    /\ \E q \in QueryPaths :
           last' = [op |-> "GetChildPrimPaths", path |-> q, out |-> GetChildPrimPaths(q)]
    /\ UNCHANGED <<prefix, inputScene, walkVars, notifyVars, dataVars>>

NextQuery == CallGetPrim \/ CallGetChildPrimPaths

SpecQuery == InitQuery /\ [][NextQuery]_vars

\* ------------------------------------------------------ claims on queries
StrictAncestorOfPrefix(a) == HasPrefix(prefix, a) /\ a # prefix

\* The tokens of q after those of the prefix.
BelowPrefix(q) == SubSeq(q.elems, Len(prefix.elems) + 1, Len(q.elems))

\* A null handle was given to New: construction then failed, or left the
\* scene index over the scene with no prims.
NullGiven == inputScene \in {NullScene, EmptyScene}

\* C3: with a null upstream handle nothing fails, and every GetPrim and
\* GetChildPrimPaths call completes and returns its "no data" answer, the
\* absent prim and the empty list, for any path.
C3_NullUpstreamDegrades ==
    NullGiven =>
        /\ last.out.status = "ok"
        /\ last.op = "GetPrim" => last.out.ret = AbsentPrim
        /\ last.op = "GetChildPrimPaths" => last.out.ret = <<>>

\* C5: for a strict ancestor a of the prefix, GetChildPrimPaths(a) is the one
\* path made of the first |a| + 1 tokens of the prefix, read inside the
\* bounds of GetPrefixes(), and GetPrim(a) is the absent prim, with no call
\* upstream, whatever upstream holds at a.
C5_JunctionSynthesis ==
    (last.op # "none" /\ StrictAncestorOfPrefix(last.path)) =>
        /\ last.out.status = "ok"
        /\ last.out.calls = <<>>
        /\ last.op = "GetChildPrimPaths" =>
               last.out.ret =
                   <<AbsPath(SubSeq(prefix.elems, 1, Len(last.path.elems) + 1))>>
        /\ last.op = "GetPrim" => last.out.ret = AbsentPrim

C5_Witness ==
    /\ last.op = "GetChildPrimPaths"
    /\ StrictAncestorOfPrefix(last.path)
    /\ last.path # AbsoluteRootPath
    /\ last.path \in DOMAIN inputScene.prims
    /\ inputScene.prims[last.path].dataSource # Null
    /\ last.out.ret = <<prefix>>

\* C6: for a path q that neither has the prefix nor is a prefix of it,
\* GetPrim(q) is the absent prim, GetChildPrimPaths(q) is empty, and no call
\* is made upstream.
C6_DomainContainment ==
    (last.op # "none" /\ ~HasPrefix(last.path, prefix) /\ ~HasPrefix(prefix, last.path)) =>
        /\ last.out.status = "ok"
        /\ last.out.calls = <<>>
        /\ last.op = "GetPrim" => last.out.ret = AbsentPrim
        /\ last.op = "GetChildPrimPaths" => last.out.ret = <<>>

C6_Witness ==
    /\ last.op = "GetPrim"
    /\ ~HasPrefix(last.path, prefix)
    /\ ~HasPrefix(prefix, last.path)
    /\ last.path \in DOMAIN inputScene.prims
    /\ inputScene.prims[last.path].dataSource # Null
    /\ last.out.ret = AbsentPrim

\* C7: for a path q that has the prefix, GetChildPrimPaths(q) asks upstream
\* once, for the children of q without the prefix, and returns a list of the
\* same length whose i-th path is the prefix followed by the tokens of the
\* i-th upstream child.
C7_ChildrenDelegated ==
    (last.op = "GetChildPrimPaths" /\ HasPrefix(last.path, prefix)) =>
        LET inner == AbsPath(BelowPrefix(last.path))
            up == InputGetChildPrimPaths(inputScene, inner)
        IN /\ last.out.status = "ok"
           /\ last.out.calls = <<UpstreamCall("GetChildPrimPaths", inner)>>
           /\ Len(last.out.ret) = Len(up)
           /\ \A i \in 1..Len(up) :
                  last.out.ret[i] = AbsPath(prefix.elems \o up[i].elems)

C7_Witness ==
    /\ last.op = "GetChildPrimPaths"
    /\ HasPrefix(last.path, prefix)
    /\ last.path # prefix
    /\ prefix # AbsoluteRootPath
    /\ Len(last.out.ret) > 1
    /\ last.out.ret[1].elems = Append(last.path.elems, "B")

\* C8: for a path q that has the prefix, GetPrim(q) asks upstream once, for
\* the prim at q without the prefix, and returns its type unchanged; the
\* container returned is a container proxy with this prefix around the
\* upstream container when that is not null, and null when it is.
C8_PrimDelegated ==
    (last.op = "GetPrim" /\ HasPrefix(last.path, prefix)) =>
        LET inner == AbsPath(BelowPrefix(last.path))
            up == InputGetPrim(inputScene, inner)
        IN /\ last.out.status = "ok"
           /\ last.out.calls = <<UpstreamCall("GetPrim", inner)>>
           /\ last.out.ret.primType = up.primType
           /\ up.dataSource # Null =>
                  last.out.ret.dataSource =
                      [kind |-> "prefixContainer", prefix |-> prefix, input |-> up.dataSource]
           /\ up.dataSource = Null => last.out.ret.dataSource = Null

C8_Witness ==
    /\ last.op = "GetPrim"
    /\ HasPrefix(last.path, prefix)
    /\ last.path # prefix
    /\ prefix # AbsoluteRootPath
    /\ last.out.status = "ok"
    /\ last.out.ret.primType = EmptyToken
    /\ last.out.ret.dataSource.kind = "prefixContainer"

\* ------------------------------------------------- the scene index walked
\* A consumer walks the scene top-down from the absolute root, reading the
\* children of one reached path at a time.
InitWalk ==
    /\ prefix \in Prefixes
    /\ inputScene \in Scenes
    /\ last = NoQuery
    /\ visited = {AbsoluteRootPath}
    /\ frontier = <<AbsoluteRootPath>>
    /\ IdleNotify
    /\ IdleData

Range(s) == {s[i] : i \in DOMAIN s}

WalkStep ==
    /\ Running
    /\ frontier # <<>>
    /\ LET at == Head(frontier)
           out == GetChildPrimPaths(at)
           fresh(c) == c \notin visited
       IN /\ last' = [op |-> "GetChildPrimPaths", path |-> at, out |-> out]
          /\ visited' = visited \cup Range(out.ret)
          /\ frontier' = Tail(frontier) \o SelectSeq(out.ret, fresh)
    /\ UNCHANGED <<prefix, inputScene, notifyVars, dataVars>>

NextWalk == WalkStep

SpecWalk == InitWalk /\ [][NextWalk]_vars

\* The paths upstream reaches from its own root by its GetChildPrimPaths.
RECURSIVE InputReachable(_, _)
InputReachable(scene, seen) ==
    LET more == UNION {Range(InputGetChildPrimPaths(scene, p)) : p \in seen}
    IN IF more \subseteq seen THEN seen ELSE InputReachable(scene, seen \cup more)

InputNamespace == InputReachable(inputScene, {AbsoluteRootPath})

VirtualNamespace ==
    {AbsPath(prefix.elems \o p.elems) : p \in InputNamespace}
        \cup {AbsPath(SubSeq(prefix.elems, 1, n)) : n \in 0..(Len(prefix.elems) - 1)}

\* C9: a top-down walk from the absolute root by GetChildPrimPaths reaches
\* only paths that are the prefix followed by a path upstream reaches from
\* its root, or strict ancestors of the prefix, and when the walk ends it has
\* reached every one of them.
C9_VirtualNamespace ==
    /\ visited \subseteq VirtualNamespace
    /\ frontier = <<>> => visited = VirtualNamespace

C9_Witness ==
    /\ frontier = <<>>
    /\ Len(prefix.elems) > 1
    /\ Cardinality(InputNamespace) > Cardinality(Names) + 1
    /\ Cardinality(visited) > Cardinality(InputNamespace) + 1

\* ------------------------------------------------------- the notifications
\* A batch is [kind, entries]: the kind says which of the three handlers it
\* is given to (or which of the three _Send functions it is sent with), the
\* entries are the vector passed.
Batch(kind, entries) == [kind |-> kind, entries |-> entries]

\* PrimsAdded that passes the upstream path on as it is.
PrimsAddedUnprefixed(entries) ==
    <<Batch("added",
        [i \in 1..Len(entries) |->
            [primPath |-> entries[i].primPath, primType |-> entries[i].primType]])>>

\* HdPrefixingSceneIndex::_PrimsAdded: the _Send calls it makes
PrimsAdded(entries) ==
    <<Batch("added",
        [i \in 1..Len(entries) |->
            [primPath |-> AddPathPrefix(entries[i].primPath),
             primType |-> entries[i].primType]])>>

\* PrimsRemoved that passes the upstream path on as it is.
PrimsRemovedUnprefixed(entries) ==
    <<Batch("removed", [i \in 1..Len(entries) |-> [primPath |-> entries[i].primPath]])>>

\* HdPrefixingSceneIndex::_PrimsRemoved: the _Send calls it makes
PrimsRemoved(entries) ==
    <<Batch("removed",
        [i \in 1..Len(entries) |-> [primPath |-> AddPathPrefix(entries[i].primPath)]])>>

\* PrimsDirtied that sends each entry on its own.
PrimsDirtiedOneByOne(entries) ==
    [i \in 1..Len(entries) |->
        Batch("dirtied",
            <<[primPath |-> AddPathPrefix(entries[i].primPath),
               dirtyLocators |-> entries[i].dirtyLocators]>>)]

\* HdPrefixingSceneIndex::_PrimsDirtied: the _Send calls it makes
PrimsDirtied(entries) ==
    <<Batch("dirtied",
        [i \in 1..Len(entries) |->
            [primPath |-> AddPathPrefix(entries[i].primPath),
             dirtyLocators |-> entries[i].dirtyLocators]])>>

AddedEntries ==
    { [primPath |-> AbsPath(<<"A">>), primType |-> "mesh"],
      [primPath |-> AbsPath(<<"B", "A">>), primType |-> "scope"] }

RemovedEntries ==
    { [primPath |-> AbsPath(<<"A">>)], [primPath |-> AbsoluteRootPath] }

DirtiedEntries ==
    { [primPath |-> AbsPath(<<"A">>), dirtyLocators |-> {"xform"}],
      [primPath |-> AbsPath(<<"B", "A">>), dirtyLocators |-> {"xform", "points"}] }

RECURSIVE EntriesIn(_)
EntriesIn(batches) ==
    IF batches = <<>> THEN 0
    ELSE Len(Head(batches).entries) + EntriesIn(Tail(batches))

\* The batches upstream may still issue: one more call, within the entries
\* left.
Batches(S) == SeqsUpTo(S, MaxEntries - EntriesIn(issued))

InitNotify ==
    /\ prefix \in Prefixes
    /\ inputScene = IdleScene
    /\ last = NoQuery
    /\ IdleWalk
    /\ issued = <<>>
    /\ sent = <<>>
    /\ IdleData

NotifyPrimsAdded ==
    /\ Len(issued) < MaxCalls
    /\ \E entries \in Batches(AddedEntries) :
           /\ issued' = Append(issued, Batch("added", entries))
           /\ sent' = sent \o PrimsAdded(entries)
    /\ UNCHANGED <<prefix, inputScene, last, walkVars, dataVars>>

NotifyPrimsRemoved ==
    /\ Len(issued) < MaxCalls
    /\ \E entries \in Batches(RemovedEntries) :
           /\ issued' = Append(issued, Batch("removed", entries))
           /\ sent' = sent \o PrimsRemoved(entries)
    /\ UNCHANGED <<prefix, inputScene, last, walkVars, dataVars>>

NotifyPrimsDirtied ==
    /\ Len(issued) < MaxCalls
    /\ \E entries \in Batches(DirtiedEntries) :
           /\ issued' = Append(issued, Batch("dirtied", entries))
           /\ sent' = sent \o PrimsDirtied(entries)
    /\ UNCHANGED <<prefix, inputScene, last, walkVars, dataVars>>

NextNotify == NotifyPrimsAdded \/ NotifyPrimsRemoved \/ NotifyPrimsDirtied

SpecNotify == InitNotify /\ [][NextNotify]_vars

\* The entry e as observers are to see it: the prefix before the tokens of
\* its path, every other field as it is.
Prefixed(e) == [e EXCEPT !.primPath = AbsPath(prefix.elems \o e.primPath.elems)]

\* C1: the batch sent for an upstream batch E has the kind and the length of
\* E, and its i-th entry is the i-th entry of E with the prefix added to the
\* path and the prim type or dirty locator set unchanged.
C1_EntriesTranslated ==
    \A k \in DOMAIN issued :
        /\ k \in DOMAIN sent
        /\ sent[k].kind = issued[k].kind
        /\ Len(sent[k].entries) = Len(issued[k].entries)
        /\ \A i \in DOMAIN issued[k].entries :
               sent[k].entries[i] = Prefixed(issued[k].entries[i])

C1_Witness ==
    /\ prefix # AbsoluteRootPath
    /\ Len(sent) = 1
    /\ sent[1].kind = "added"
    /\ Len(sent[1].entries) = 2
    /\ sent[1].entries[1].primType = "scope"
    /\ sent[1].entries[2].primType = "mesh"

\* C2: every upstream call adds exactly one batch to the end of what has
\* been sent, in the step of the call itself, of the kind and length of the
\* batch upstream gave; what was sent before stays as it is, and nothing is
\* sent without an upstream call.
C2_OneSendPerCall ==
    [][(Len(issued') = Len(issued) + 1 =>
            /\ Len(sent') = Len(sent) + 1
            /\ SubSeq(sent', 1, Len(sent)) = sent
            /\ sent'[Len(sent')].kind = issued'[Len(issued')].kind
            /\ Len(sent'[Len(sent')].entries) = Len(issued'[Len(issued')].entries))
       /\ (issued' = issued => sent' = sent)]_vars

C2_Witness ==
    /\ Len(issued) = MaxCalls
    /\ Len(sent) = MaxCalls
    /\ issued[1].kind = "dirtied"
    /\ Len(issued[1].entries) > 1
    /\ issued[MaxCalls].kind = "removed"
    /\ issued[MaxCalls].entries = <<>>

\* ------------------------------------------------ the data sources in use
\* A consumer holds a data source handle: it starts with an upstream object
\* or the null handle, puts proxies around it, descends with Get, and reads
\* through Has, GetNames and GetTypedValue.
ProbeNames == {"sub", "rel", "abs", "val", "tgt", "both", "none"}

RECURSIVE Wraps(_)
Wraps(ds) ==
    IF ds.kind \in {"prefixPath", "prefixContainer"} THEN 1 + Wraps(ds.input) ELSE 0

InitData ==
    /\ prefix \in Prefixes
    /\ inputScene = IdleScene
    /\ last = NoQuery
    /\ IdleWalk
    /\ IdleNotify
    /\ handle \in RawContainers \cup RawLeaves \cup {Null}
    /\ lastRead = NoRead

NewContainerDataSource ==
    /\ handle = Null \/ CastsToContainer(handle)
    /\ Wraps(handle) < MaxWraps
    /\ handle' = ContainerDataSourceNew(prefix, handle)
    /\ lastRead' = NoRead
    /\ UNCHANGED <<prefix, inputScene, last, walkVars, notifyVars>>

NewPathDataSource ==
    /\ handle = Null \/ CastsToPath(handle)
    /\ Wraps(handle) < MaxWraps
    /\ handle' = PathDataSourceNew(prefix, handle)
    /\ lastRead' = NoRead
    /\ UNCHANGED <<prefix, inputScene, last, walkVars, notifyVars>>

CallGet ==
    /\ CastsToContainer(handle)
    /\ \E name \in ProbeNames :
           /\ lastRead' = [op |-> "Get", ds |-> handle, name |-> name,
                           ret |-> Get(handle, name),
                           made |-> Constructed(handle, "Get", name)]
           /\ handle' = Get(handle, name)
    /\ UNCHANGED <<prefix, inputScene, last, walkVars, notifyVars>>

CallHas ==
    /\ CastsToContainer(handle)
    /\ \E name \in ProbeNames :
           lastRead' = [op |-> "Has", ds |-> handle, name |-> name,
                        ret |-> Has(handle, name),
                        made |-> Constructed(handle, "Has", name)]
    /\ UNCHANGED <<prefix, inputScene, last, walkVars, notifyVars, handle>>

CallGetNames ==
    /\ CastsToContainer(handle)
    /\ lastRead' = [op |-> "GetNames", ds |-> handle, ret |-> GetNames(handle),
                    made |-> Constructed(handle, "GetNames", "none")]
    /\ UNCHANGED <<prefix, inputScene, last, walkVars, notifyVars, handle>>

CallGetTypedValue ==
    /\ CastsToPath(handle)
    /\ \E t \in Times :
           lastRead' = [op |-> "GetTypedValue", ds |-> handle, time |-> t,
                        ret |-> GetTypedValue(handle, t)]
    /\ UNCHANGED <<prefix, inputScene, last, walkVars, notifyVars, handle>>

NextData ==
    \/ NewContainerDataSource
    \/ NewPathDataSource
    \/ CallGet
    \/ CallHas
    \/ CallGetNames
    \/ CallGetTypedValue

SpecData == InitData /\ [][NextData]_vars

\* What a consumer can see of a data source through its interface: of a
\* container its names, the names it has and what it sees of each child; of
\* a path data source its value at each time; of any other object, the
\* object.
RECURSIVE Observed(_)
Observed(ds) ==
    IF ds = Null THEN [kind |-> "nothing"]
    ELSE IF CastsToContainer(ds)
    THEN [kind |-> "container",
          names |-> GetNames(ds),
          has |-> {n \in ProbeNames : Has(ds, n)},
          child |-> [n \in ProbeNames |-> Observed(Get(ds, n))]]
    ELSE IF CastsToPath(ds)
    THEN [kind |-> "path", values |-> [t \in Times |-> GetTypedValue(ds, t)]]
    ELSE [kind |-> "other", object |-> ds]

\* What is observed, with pfx put once more before every absolute path value.
RECURSIVE PrefixedAgain(_, _)
PrefixedAgain(pfx, obs) ==
    IF obs.kind = "container"
    THEN [obs EXCEPT !.child = [n \in ProbeNames |-> PrefixedAgain(pfx, obs.child[n])]]
    ELSE IF obs.kind = "path"
    THEN [obs EXCEPT !.values = [t \in Times |->
              IF obs.values[t].kind = "abs"
              THEN AbsPath(pfx.elems \o obs.values[t].elems)
              ELSE obs.values[t]]]
    ELSE obs

RewrappedContainer ==
    /\ handle.kind = "prefixContainer"
    /\ handle.input.kind = "prefixContainer"
    /\ handle.input.prefix = handle.prefix

\* C4 as stated: a container proxy around a container proxy with the same
\* prefix shows the same Has, GetNames and Get results, path values
\* included, as the inner proxy alone.
C4_RewrapIdempotent ==
    RewrappedContainer => Observed(handle) = Observed(handle.input)

\* C4 as amended: a container proxy around a container proxy with the same
\* prefix shows the same names, the same Has answers, the same kind of child
\* under every name and the same non-path children as the inner proxy alone,
\* and every path value the inner proxy shows with the prefix put before it
\* once more when it is absolute, unchanged when it is not.
C4_RewrapPrefixesAgain ==
    RewrappedContainer =>
        Observed(handle) = PrefixedAgain(handle.prefix, Observed(handle.input))

C4_Witness ==
    /\ RewrappedContainer
    /\ prefix # AbsoluteRootPath
    /\ Has(handle, "sub")
    /\ GetTypedValue(Get(Get(handle, "sub"), "tgt"), 0)
           = AbsPath(prefix.elems \o prefix.elems \o <<"B">>)
    /\ GetTypedValue(Get(handle, "rel"), 0) = RelPath(<<"A", "B">>)

\* C10: a path proxy with prefix P returns the empty path when it wraps no
\* leaf, P followed by the tokens of the wrapped leaf's value when that value
\* is absolute, and the wrapped leaf's value itself when it is not, at every
\* time.
C10_LeafRewrite ==
    (lastRead.op = "GetTypedValue" /\ lastRead.ds.kind = "prefixPath") =>
        IF lastRead.ds.input = Null
        THEN lastRead.ret = EmptyPath
        ELSE LET inner == GetTypedValue(lastRead.ds.input, lastRead.time)
             IN IF inner.kind = "abs"
                THEN lastRead.ret = AbsPath(lastRead.ds.prefix.elems \o inner.elems)
                ELSE lastRead.ret = inner

C10_Witness ==
    /\ lastRead.op = "GetTypedValue"
    /\ lastRead.ds.kind = "prefixPath"
    /\ lastRead.ds.input = TargetAB
    /\ Len(prefix.elems) = MaxPrefixLen
    /\ lastRead.ret = AbsPath(prefix.elems \o <<"A", "B">>)

\* C11: Get(name) on a container proxy returns nothing when the proxy wraps
\* no container or the wrapped container has no child of that name; a
\* container proxy with the same prefix around the child when the child is a
\* container, also when it is a path data source as well; a path proxy with
\* the same prefix around the child when the child is a path data source and
\* no container; and the child itself in every other case.
C11_GetDispatch ==
    (lastRead.op = "Get" /\ lastRead.ds.kind = "prefixContainer") =>
        LET child == IF lastRead.ds.input = Null
                     THEN Null
                     ELSE Get(lastRead.ds.input, lastRead.name)
        IN IF child = Null
           THEN lastRead.ret = Null
           ELSE IF child.kind \in {"container", "pathContainer", "prefixContainer"}
           THEN lastRead.ret =
                    [kind |-> "prefixContainer", prefix |-> lastRead.ds.prefix,
                     input |-> child]
           ELSE IF child.kind \in {"path", "prefixPath"}
           THEN lastRead.ret =
                    [kind |-> "prefixPath", prefix |-> lastRead.ds.prefix, input |-> child]
           ELSE lastRead.ret = child

C11_Witness ==
    /\ lastRead.op = "Get"
    /\ lastRead.ds = [kind |-> "prefixContainer", prefix |-> prefix, input |-> MixedContainer]
    /\ lastRead.name = "both"
    /\ lastRead.ret.kind = "prefixContainer"
    /\ lastRead.ret.input = PathAndContainer

\* The upstream object, or the null handle, under the proxies of ds.
RECURSIVE RawOf(_)
RawOf(ds) ==
    IF ds.kind \in {"prefixPath", "prefixContainer"} THEN RawOf(ds.input) ELSE ds

\* C13: Has(name) and GetNames() on a container proxy return what the
\* wrapped container returns, FALSE and the empty list when there is none,
\* and construct no proxy.  Get(name) constructs one proxy in each container
\* proxy the call passes through when the upstream child of that name is a
\* container or a path data source, and none otherwise; every proxy it
\* constructs is around the upstream child of that name and no other child,
\* and the last one constructed is the one returned.
C13_LazyWrapping ==
    (lastRead.op \in {"Has", "GetNames", "Get"} /\ lastRead.ds.kind = "prefixContainer") =>
        LET wrapped == lastRead.ds.input
            raw == RawOf(lastRead.ds)
        IN /\ lastRead.op = "Has" =>
                  /\ lastRead.made = <<>>
                  /\ lastRead.ret = (wrapped # Null /\ Has(wrapped, lastRead.name))
           /\ lastRead.op = "GetNames" =>
                  /\ lastRead.made = <<>>
                  /\ lastRead.ret = (IF wrapped = Null THEN <<>> ELSE GetNames(wrapped))
                  /\ lastRead.ret = (IF raw = Null THEN <<>> ELSE raw.names)
           /\ lastRead.op = "Get" =>
                  LET rawChild == IF raw = Null \/ lastRead.name \notin DOMAIN raw.child
                                  THEN Null
                                  ELSE raw.child[lastRead.name]
                      wrappable == rawChild.kind \in {"container", "pathContainer", "path"}
                  IN /\ Len(lastRead.made) = (IF wrappable THEN Wraps(lastRead.ds) ELSE 0)
                     /\ \A i \in DOMAIN lastRead.made :
                            /\ RawOf(lastRead.made[i]) = rawChild
                            /\ Wraps(lastRead.made[i]) = i
                     /\ lastRead.made # <<>> =>
                            lastRead.ret = lastRead.made[Len(lastRead.made)]
                     /\ lastRead.made = <<>> => lastRead.ret = rawChild

C13_Witness ==
    /\ lastRead.op = "GetNames"
    /\ lastRead.ds = [kind |-> "prefixContainer", prefix |-> prefix, input |-> OuterContainer]
    /\ lastRead.ret = <<"sub", "rel", "abs", "val">>
    /\ lastRead.made = <<>>

\* ------------------------------------------- the two path translations
\* A path is carried into the virtual namespace and back, as when upstream
\* announces a prim and a consumer then asks for it, or the other way round.
TripPaths == QueryPaths \cup {AbsPath(<<"AB">>), AbsPath(<<"AB", "C">>)}

InitTrip ==
    /\ prefix \in Prefixes
    /\ inputScene = IdleScene
    /\ last = NoQuery
    /\ IdleWalk
    /\ IdleNotify
    /\ IdleData

CallAddPathPrefix ==
    /\ \E p \in TripPaths :
           last' = [op |-> "AddPathPrefix", path |-> p,
                    out |-> Returned(AddPathPrefix(p), <<>>)]
    /\ UNCHANGED <<prefix, inputScene, walkVars, notifyVars, dataVars>>

CallRemovePathPrefix ==
    /\ \E q \in TripPaths :
           last' = [op |-> "RemovePathPrefix", path |-> q,
                    out |-> Returned(RemovePathPrefix(q), <<>>)]
    /\ UNCHANGED <<prefix, inputScene, walkVars, notifyVars, dataVars>>

RemoveAdded ==
    /\ last.op = "AddPathPrefix"
    /\ last' = [op |-> "RemoveAfterAdd", path |-> last.path,
                out |-> Returned(RemovePathPrefix(last.out.ret), <<>>)]
    /\ UNCHANGED <<prefix, inputScene, walkVars, notifyVars, dataVars>>

AddRemoved ==
    /\ last.op = "RemovePathPrefix"
    /\ last' = [op |-> "AddAfterRemove", path |-> last.path,
                out |-> Returned(AddPathPrefix(last.out.ret), <<>>)]
    /\ UNCHANGED <<prefix, inputScene, walkVars, notifyVars, dataVars>>

NextTrip == CallAddPathPrefix \/ CallRemovePathPrefix \/ RemoveAdded \/ AddRemoved

SpecTrip == InitTrip /\ [][NextTrip]_vars

\* The leading tokens of q are those of the prefix, one by one.
StartsWithPrefixTokens(q) ==
    /\ Len(prefix.elems) <= Len(q.elems)
    /\ \A i \in 1..Len(prefix.elems) : q.elems[i] = prefix.elems[i]

\* C12: removing the prefix from a path the prefix was added to gives the
\* path back; adding the prefix to a path it was removed from gives the path
\* back when the path has the prefix; and the prefix is matched on whole
\* tokens: an absolute path gets the prefix's tokens before its own, and
\* loses them only when its leading tokens equal them.
C12_PrefixRoundTrip ==
    /\ last.op = "RemoveAfterAdd" => last.out.ret = last.path
    /\ (last.op = "AddAfterRemove" /\ HasPrefix(last.path, prefix)) =>
           last.out.ret = last.path
    /\ (last.op = "AddPathPrefix" /\ last.path.kind = "abs") =>
           last.out.ret = AbsPath(prefix.elems \o last.path.elems)
    /\ (last.op = "RemovePathPrefix" /\ last.path.kind = "abs") =>
           last.out.ret =
               IF StartsWithPrefixTokens(last.path)
               THEN AbsPath(SubSeq(last.path.elems, Len(prefix.elems) + 1,
                                   Len(last.path.elems)))
               ELSE last.path

C12_Witness ==
    /\ last.op = "RemoveAfterAdd"
    /\ prefix = AbsPath(<<"A">>)
    /\ last.path = AbsPath(<<"A", "B">>)
    /\ last.out.ret = last.path

\* ------------------------------------------------------ the tree's shape
\* c is an absolute path with the tokens of q and one more.
DirectChild(c, q) ==
    /\ c.kind = "abs"
    /\ Len(c.elems) = Len(q.elems) + 1
    /\ SubSeq(c.elems, 1, Len(q.elems)) = q.elems

\* Upstream answers GetChildPrimPaths(p) with direct children of p only.
InputWellFormed ==
    inputScene # NullScene =>
        \A p \in DOMAIN inputScene.children :
            \A i \in DOMAIN inputScene.children[p] :
                DirectChild(inputScene.children[p][i], p)

\* C15: when upstream lists only direct children, every path that
\* GetChildPrimPaths(q) returns for an absolute q is a direct child of q,
\* below the prefix and on the way down to it alike.
C15_ChildrenAreDirect ==
    (last.op = "GetChildPrimPaths" /\ last.path.kind = "abs"
        /\ last.out.status = "ok" /\ InputWellFormed) =>
        \A i \in DOMAIN last.out.ret : DirectChild(last.out.ret[i], last.path)

C15_Witness ==
    /\ last.op = "GetChildPrimPaths"
    /\ Len(prefix.elems) = MaxPrefixLen
    /\ Len(last.path.elems) > Len(prefix.elems)
    /\ last.out.status = "ok"
    /\ Len(last.out.ret) = Cardinality(Names)
    /\ InputWellFormed

\* ------------------------------------------------- two scene indices chained
\* The input scene of this scene index is another HdPrefixingSceneIndex, with
\* its own prefix, over an upstream scene.  Queries go through both; a batch
\* upstream issues is handled by the inner scene index, and every batch that
\* one sends is handled by this one.
InnerPrefixes == {AbsoluteRootPath, AbsPath(<<"A">>), AbsPath(<<"B", "A">>)}

ChainScenes ==
    { SceneOf({}, NameOrder, "dataOnly"),
      SceneOf({<<"A">>, <<"B">>}, NameOrder, "typeOnly"),
      SceneOf({<<"B">>, <<"B", "A">>}, Reverse(NameOrder), "full"),
      SceneOf({<<"A">>, <<"B">>, <<"A", "A">>, <<"A", "B">>, <<"B", "B">>},
              Reverse(NameOrder), "full") }

\* The _Send calls of the three handlers of the scene index self.
SceneIndexPrimsAdded(self, entries) ==
    <<Batch("added",
        [i \in 1..Len(entries) |->
            [primPath |-> ReplacePrefix(entries[i].primPath, AbsoluteRootPath, self.prefix),
             primType |-> entries[i].primType]])>>

SceneIndexPrimsRemoved(self, entries) ==
    <<Batch("removed",
        [i \in 1..Len(entries) |->
            [primPath |->
                ReplacePrefix(entries[i].primPath, AbsoluteRootPath, self.prefix)]])>>

SceneIndexPrimsDirtied(self, entries) ==
    <<Batch("dirtied",
        [i \in 1..Len(entries) |->
            [primPath |-> ReplacePrefix(entries[i].primPath, AbsoluteRootPath, self.prefix),
             dirtyLocators |-> entries[i].dirtyLocators]])>>

\* What this scene index sends when its input scene sends the batches given.
RECURSIVE Forwarded(_)
Forwarded(batches) ==
    IF batches = <<>> THEN <<>>
    ELSE LET b == Head(batches)
         IN (CASE b.kind = "added" -> PrimsAdded(b.entries)
               [] b.kind = "removed" -> PrimsRemoved(b.entries)
               [] b.kind = "dirtied" -> PrimsDirtied(b.entries))
                \o Forwarded(Tail(batches))

InitChain ==
    /\ prefix \in Prefixes
    /\ inputScene \in {PrefixingSceneIndexNew(scene, pfx) :
                          scene \in ChainScenes, pfx \in InnerPrefixes}
    /\ last = NoQuery
    /\ IdleWalk
    /\ IdleNotify
    /\ IdleData

ChainPrimsAdded ==
    /\ \E entries \in SeqsUpTo(AddedEntries, MaxEntries) :
           last' = [op |-> "PrimsAdded", path |-> EmptyPath, entries |-> entries,
                    out |-> Returned(
                        Forwarded(SceneIndexPrimsAdded(inputScene, entries)), <<>>)]
    /\ UNCHANGED <<prefix, inputScene, walkVars, notifyVars, dataVars>>

ChainPrimsRemoved ==
    /\ \E entries \in SeqsUpTo(RemovedEntries, MaxEntries) :
           last' = [op |-> "PrimsRemoved", path |-> EmptyPath, entries |-> entries,
                    out |-> Returned(
                        Forwarded(SceneIndexPrimsRemoved(inputScene, entries)), <<>>)]
    /\ UNCHANGED <<prefix, inputScene, walkVars, notifyVars, dataVars>>

ChainPrimsDirtied ==
    /\ \E entries \in SeqsUpTo(DirtiedEntries, MaxEntries) :
           last' = [op |-> "PrimsDirtied", path |-> EmptyPath, entries |-> entries,
                    out |-> Returned(
                        Forwarded(SceneIndexPrimsDirtied(inputScene, entries)), <<>>)]
    /\ UNCHANGED <<prefix, inputScene, walkVars, notifyVars, dataVars>>

NextChain ==
    \/ CallGetPrim
    \/ CallGetChildPrimPaths
    \/ ChainPrimsAdded
    \/ ChainPrimsRemoved
    \/ ChainPrimsDirtied

SpecChain == InitChain /\ [][NextChain]_vars

\* The one scene index the chain is to equal: over the chain's upstream
\* scene, with the outer prefix followed by the inner one.
Composed ==
    PrefixingSceneIndexNew(
        inputScene.input,
        AppendPath(prefix, MakeRelativePath(inputScene.prefix, AbsoluteRootPath)))

\* C14: a scene index with prefix P2 over a scene index with prefix P1 over
\* an upstream scene answers as one scene index over that scene with prefix
\* P2 followed by P1: GetPrim gives the same type, is absent for the same
\* paths and gives a container that shows the same names, children and path
\* values; GetChildPrimPaths gives the same list; and an upstream batch of
\* any of the three kinds comes out as the same single batch.
C14_ChainingComposes ==
    /\ last.op = "GetPrim" =>
           LET one == SceneIndexGetPrim(Composed, last.path)
           IN /\ last.out.status = "ok"
              /\ one.status = "ok"
              /\ last.out.ret.primType = one.ret.primType
              /\ (last.out.ret = AbsentPrim) = (one.ret = AbsentPrim)
              /\ (last.out.ret.dataSource = Null) = (one.ret.dataSource = Null)
              /\ Observed(last.out.ret.dataSource) = Observed(one.ret.dataSource)
    /\ last.op = "GetChildPrimPaths" =>
           /\ last.out.status = "ok"
           /\ last.out.ret = SceneIndexGetChildPrimPaths(Composed, last.path).ret
    /\ last.op = "PrimsAdded" =>
           last.out.ret = SceneIndexPrimsAdded(Composed, last.entries)
    /\ last.op = "PrimsRemoved" =>
           last.out.ret = SceneIndexPrimsRemoved(Composed, last.entries)
    /\ last.op = "PrimsDirtied" =>
           last.out.ret = SceneIndexPrimsDirtied(Composed, last.entries)

C14_Witness ==
    /\ last.op = "GetPrim"
    /\ Len(prefix.elems) = MaxPrefixLen
    /\ inputScene.prefix # AbsoluteRootPath
    /\ inputScene.prefix # prefix
    /\ Len(last.path.elems) > Len(Composed.prefix.elems)
    /\ last.out.ret.primType = "mesh"
    /\ last.out.ret.dataSource # Null
    /\ GetTypedValue(Get(last.out.ret.dataSource, "abs"), 0)
           = AbsPath(prefix.elems \o inputScene.prefix.elems \o <<"A", "B">>)

====
